---- MODULE Spec2Model ----
(***************************************************************************)
(* Model of the sprite packing plugin in its two deployment variants:      *)
(*   src/index.js   in-pipeline variant (processAssets hook, "includes")   *)
(*   src/plugin.js  standalone variant (beforeRun hook in production, a    *)
(*                  gaze watcher otherwise, "excludes")                    *)
(* Strings are sequences of one-character strings, so that suffix tests,   *)
(* separator conversion and basename are computed rather than assumed.     *)
(***************************************************************************)
EXTENDS Integers, Sequences, FiniteSets, TLC

VARIABLES
    mode,            \* which part runs: "filter", "differ", "pipeline", "prod", "watch"
    sep,             \* path.sep of the platform: "/" (posix) or "\\" (win32)
    rules,           \* option.includes (index.js) / option.excludes (plugin.js)
    lastIndex,       \* lastIndex of every RegExp object held by rules
    assets,          \* compilation.assets: ordered <<[id, src]>> (index.js)
    jobs,            \* pack attempts in flight (closures awaiting packer or writes)
    coordinateMeta,  \* this._coordinateMeta (index.js)
    disk,            \* the durable files: coordinate file, manifest.json, sprite.png
    watched,         \* gazeIns.watched(): the set of files the watcher knows
    nAttempts,       \* number of handler runs so far (hooks, source file events, calls)
    prevMeta,        \* metadata computed by the latest successful pack (observation only)
    caller,          \* the object last handed to isPrevMetadata, as its caller holds it
    last             \* what the last step did (observation only)

vars == <<mode, sep, rules, lastIndex, assets, jobs, coordinateMeta, disk,
          watched, nAttempts, prevMeta, caller, last>>

\* ------------------------------------------------------------------ bounds
MaxAttempts == 2
MaxSize == 2
MaxEvals == 3

\* ----------------------------------------------------------------- strings
Str_a_png  == <<"a", ".", "p", "n", "g">>
Str_b_png  == <<"b", ".", "p", "n", "g">>
Str_da_png == <<"d", "/", "a", ".", "p", "n", "g">>
Str_a_txt  == <<"a", ".", "t", "x", "t">>
Str_wb_png == <<"d", "\\", "b", ".", "p", "n", "g">>
Str_wa_png == <<"d", "\\", "a", ".", "p", "n", "g">>
Str_d      == <<"d">>

DotPng == <<".", "p", "n", "g">>

EndsWith(s, suffix) ==
    /\ Len(s) >= Len(suffix)
    /\ SubSeq(s, Len(s) - Len(suffix) + 1, Len(s)) = suffix

SetMax(S) == CHOOSE m \in S : \A n \in S : n <= m
SetMin(S) == CHOOSE m \in S : \A n \in S : m <= n

\* ------------------------------------------------------------ node "path"
\* The characters path.basename / path.dirname treat as separators.
Separators == IF sep = "/" THEN {"/"} ELSE {"/", "\\"}

LastSep(p) == SetMax({0} \cup {i \in 1..Len(p) : p[i] \in Separators})

basename(p) == SubSeq(p, LastSep(p) + 1, Len(p))

dirname(p) ==
    IF LastSep(p) = 0 THEN <<".">>
    ELSE IF LastSep(p) = 1 THEN <<p[1]>>
    ELSE SubSeq(p, 1, LastSep(p) - 1)

\* path.join(a, b) for segments without "." or "..": joined with path.sep and
\* normalized, which on win32 rewrites every "/" as "\\".
PathJoin(a, b) ==
    LET raw == a \o <<sep>> \o b
    IN  IF sep = "/" THEN raw
        ELSE [i \in 1..Len(raw) |-> IF raw[i] = "/" THEN "\\" ELSE raw[i]]

\* s.split(path.sep).pop(): what follows the last path.sep character of s.
SplitSepPop(s) ==
    LET cut == SetMax({0} \cup {i \in 1..Len(s) : s[i] = sep})
    IN  SubSeq(s, cut + 1, Len(s))

\* plugin.js #convert2Posix: v.split(path.sep).join("/")
convert2Posix(v) ==
    IF v = <<>> THEN <<>>
    ELSE [i \in 1..Len(v) |-> IF v[i] = sep THEN "/" ELSE v[i]]

\* ---------------------------------------------------------------- RegExp
\* A pattern is a literal RegExp: [type |-> "RegExp", source, global].
\* Other option values: [type |-> "undefined"], [type |-> "string", val],
\* [type |-> "number"], [type |-> "Array", items].
IsRegExp(v) == v.type = "RegExp"
IsArray(v)  == v.type = "Array"
TypeOf(v)   == IF v.type \in {"RegExp", "Array"} THEN "object" ELSE v.type
Falsy(v)    == v.type = "undefined" \/ (v.type = "string" /\ v.val = <<>>)

MatchAt(s, pat, i) ==
    /\ i + Len(pat) - 1 <= Len(s)
    /\ SubSeq(s, i, i + Len(pat) - 1) = pat

\* Stateless match of a literal pattern anywhere in s.
Matches(re, s) == \E i \in 1..(Len(s) + 1) : MatchAt(s, re.source, i)

\* re.test(s) with the object's lastIndex li: a global pattern searches from
\* lastIndex and moves it; the result is [val, lastIndex].
RegExpTest(re, li, s) ==
    LET start == IF re.global THEN li + 1 ELSE 1
        hits  == {i \in start..(Len(s) + 1) : MatchAt(s, re.source, i)}
    IN  IF hits = {}
        THEN [val |-> FALSE, lastIndex |-> IF re.global THEN 0 ELSE li]
        ELSE [val |-> TRUE,
              lastIndex |-> IF re.global
                            THEN SetMin(hits) - 1 + Len(re.source)
                            ELSE li]

\* Outcome of a filter evaluation: a returned boolean or a thrown Error whose
\* message carries idx (-1 when the message names no index) and typ.
Return(b, li)        == [kind |-> "return", val |-> b, idx |-> -1, typ |-> "", lastIndex |-> li]
Throw(idx, typ, li)  == [kind |-> "throw", val |-> FALSE, idx |-> idx, typ |-> typ, lastIndex |-> li]

\* -------------------------------------------------------- index.js filter
isPng(filePath) == EndsWith(filePath, DotPng)

\* Array.prototype.includes(filePath): SameValueZero against every element.
ArrayIncludes(items, filePath) ==
    \E i \in 1..Len(items) : items[i].type = "string" /\ items[i].val = filePath

inWhiteList(includes, li, filePath) ==
    IF Falsy(includes) THEN Return(TRUE, li)
    ELSE IF ~(IsRegExp(includes) \/ IsArray(includes))
    THEN Throw(-1, TypeOf(includes), li)
    ELSE IF IsRegExp(includes)
    THEN LET t == RegExpTest(includes, li[1], filePath)
         IN  Return(~t.val, <<t.lastIndex>>)
    ELSE Return(~ArrayIncludes(includes.items, filePath), li)

\* filePath => this.inWhiteList(filePath) && this.isPng(filePath)
QualifiesIndex(includes, li, filePath) ==
    LET w == inWhiteList(includes, li, filePath)
    IN  IF w.kind = "throw" THEN w
        ELSE Return(w.val /\ isPng(filePath), w.lastIndex)

\* ------------------------------------------------------- plugin.js filter
RECURSIVE ExcludesLoop(_, _, _, _)
ExcludesLoop(items, li, posixPath, idx) ==
    IF idx > Len(items) THEN Return(TRUE, li)
    ELSE LET it == items[idx]
         IN  IF ~IsRegExp(it) THEN Throw(idx - 1, TypeOf(it), li)
             ELSE LET t   == RegExpTest(it, li[idx], posixPath)
                      li2 == [li EXCEPT ![idx] = t.lastIndex]
                  IN  IF t.val THEN Return(FALSE, li2)
                      ELSE ExcludesLoop(items, li2, posixPath, idx + 1)

notExcludes(excludes, li, filePath) ==
    IF Falsy(excludes) THEN Return(TRUE, li)
    ELSE IF ~(IsRegExp(excludes) \/ IsArray(excludes))
    THEN Throw(-1, TypeOf(excludes), li)
    ELSE IF IsRegExp(excludes)
    THEN LET t == RegExpTest(excludes, li[1], convert2Posix(filePath))
         IN  Return(~t.val, <<t.lastIndex>>)
    ELSE ExcludesLoop(excludes.items, li, convert2Posix(filePath), 1)

\* p => this.#notExcludes(p) && this.#isPng(p)
QualifiesPlugin(excludes, li, filePath) ==
    LET w == notExcludes(excludes, li, filePath)
    IN  IF w.kind = "throw" THEN w
        ELSE Return(w.val /\ isPng(filePath), w.lastIndex)

\* list.filter(lambda) with the RegExp state threaded through the calls; a
\* throw ends the whole filter. Result: [kind, out, idx, typ, lastIndex].
RECURSIVE FilterIndex(_, _, _, _)
FilterIndex(includes, li, paths, acc) ==
    IF paths = <<>>
    THEN [kind |-> "return", out |-> acc, idx |-> -1, typ |-> "", lastIndex |-> li]
    ELSE LET q == QualifiesIndex(includes, li, Head(paths))
         IN  IF q.kind = "throw"
             THEN [kind |-> "throw", out |-> <<>>, idx |-> q.idx, typ |-> q.typ,
                   lastIndex |-> q.lastIndex]
             ELSE FilterIndex(includes, q.lastIndex, Tail(paths),
                              IF q.val THEN Append(acc, Head(paths)) ELSE acc)

RECURSIVE FilterPlugin(_, _, _, _)
FilterPlugin(excludes, li, paths, acc) ==
    IF paths = <<>>
    THEN [kind |-> "return", out |-> acc, idx |-> -1, typ |-> "", lastIndex |-> li]
    ELSE LET q == QualifiesPlugin(excludes, li, Head(paths))
         IN  IF q.kind = "throw"
             THEN [kind |-> "throw", out |-> <<>>, idx |-> q.idx, typ |-> q.typ,
                   lastIndex |-> q.lastIndex]
             ELSE FilterPlugin(excludes, q.lastIndex, Tail(paths),
                               IF q.val THEN Append(acc, Head(paths)) ELSE acc)

\* ------------------------------------------------------------ JS objects
\* An object with string keys is the ordered list of its [k, v] entries:
\* assigning an existing key replaces its value in place, a new key is appended.
ObjKeys(obj) == {obj[i].k : i \in 1..Len(obj)}
ObjGet(obj, key) == (CHOOSE i \in 1..Len(obj) : obj[i].k = key) 
ObjPut(obj, key, value) ==
    IF key \in ObjKeys(obj)
    THEN [i \in 1..Len(obj) |-> IF obj[i].k = key THEN [k |-> key, v |-> value] ELSE obj[i]]
    ELSE Append(obj, [k |-> key, v |-> value])
\* The mapping an object denotes, whatever the order of its entries.
AsMap(obj) == [key \in ObjKeys(obj) |-> obj[ObjGet(obj, key)].v]

Null == [type |-> "null"]
IsNull(v) == v = Null

\* --------------------------------------------------------------- packer
\* Spritesmith.run({src}, cb) on success: the images laid out in a row, each
\* size x size; coordinates are keyed by the source path, in source order.
Rect(i, size) == [x |-> (i - 1) * size, y |-> 0, width |-> size, height |-> size]

PackResult(src, size) ==
    [coordinates |-> [i \in 1..Len(src) |-> [k |-> src[i], v |-> Rect(i, size)]],
     properties  |-> [width |-> Len(src) * size, height |-> size],
     image       |-> [sheet |-> src, size |-> size]]

\* ------------------------------------------------------- index.js metadata
\* Mutant: the frames keyed by the packer's full path, not its basename.
FramesIndex_FullPathKeys(coordinates, frames) ==
    frames \o [i \in 1..Len(coordinates) |-> [k |-> coordinates[i].k, v |-> coordinates[i].v]]

RECURSIVE FramesIndex(_, _)
FramesIndex(coordinates, frames) ==
    IF coordinates = <<>> THEN frames
    ELSE FramesIndex(Tail(coordinates),
                     ObjPut(frames, basename(Head(coordinates).k), Head(coordinates).v))

CoordinateMetaOf(result) ==
    [type   |-> "object",
     width  |-> result.properties.width,
     height |-> result.properties.height,
     frames |-> FramesIndex(result.coordinates, <<>>)]

\* utils/lodashIsEqual: deep structural equality, entry order ignored.
isEqual(a, b) ==
    IF IsNull(a) \/ IsNull(b) THEN IsNull(a) /\ IsNull(b)
    ELSE /\ a.width = b.width
         /\ a.height = b.height
         /\ AsMap(a.frames) = AsMap(b.frames)

\* utils/lodashCloneDeep: a value-equal copy.
cloneDeep(v) == v

\* The objects a metadata value is made of: the top-level object (holding the
\* dimensions), the frames mapping, and the rectangles in it.
Parts == {"top", "frames", "rects"}

\* utils/lodashCloneDeep: the parts of the copy that are the very objects of
\* the argument (a deep copy shares none).
cloneDeepShares == {}

\* Mutant: the differ compares but never stores the new metadata.
isPrevMetadata_NeverStores(prev, newSource) ==
    [equal |-> isEqual(prev, newSource), coordinateMeta |-> prev, shares |-> {}]

\* Mutant: the differ stores the new metadata when it is equal, not when it differs.
isPrevMetadata_StoresOnEqual(prev, newSource) ==
    LET equal == isEqual(prev, newSource)
    IN  [equal |-> equal,
         coordinateMeta |-> IF equal THEN cloneDeep(newSource) ELSE prev,
         shares |-> IF equal THEN cloneDeepShares ELSE {}]

\* Mutant: the differ keeps the caller's object itself instead of a copy.
isPrevMetadata_StoresReference(prev, newSource) ==
    LET equal == isEqual(prev, newSource)
    IN  [equal |-> equal,
         coordinateMeta |-> IF ~equal THEN newSource ELSE prev,
         shares |-> IF ~equal THEN Parts ELSE {}]

\* isPrevMetadata(newSource): [equal, coordinateMeta after the call, the parts
\* of it that are objects of newSource]
isPrevMetadata(prev, newSource) ==
    LET equal == isEqual(prev, newSource)
    IN  [equal |-> equal,
         coordinateMeta |-> IF ~equal THEN cloneDeep(newSource) ELSE prev,
         shares |-> IF ~equal THEN cloneDeepShares ELSE {}]

\* JSON.stringify: the text lists the entries in the object's own order.
JsonCoordinateMeta(meta) ==
    [text |-> "json", width |-> meta.width, height |-> meta.height,
     frames |-> [i \in 1..Len(meta.frames) |->
                   <<meta.frames[i].k, "x", meta.frames[i].v.x, "y", meta.frames[i].v.y,
                     "width", meta.frames[i].v.width, "height", meta.frames[i].v.height>>]]

\* ------------------------------------------------------ plugin.js metadata
\* `${path.dirname(filePath).split(path.sep).pop()}_${path.basename(filePath)}`
FileNameKey(filePath) == SplitSepPop(dirname(filePath)) \o <<"_">> \o basename(filePath)

RECURSIVE ManifestEntries(_, _)
ManifestEntries(coordinates, metadata) ==
    IF coordinates = <<>> THEN metadata
    ELSE LET c == Head(coordinates)
         IN  ManifestEntries(Tail(coordinates),
                 ObjPut(metadata, FileNameKey(c.k),
                        [x |-> c.v.x, y |-> c.v.y, w |-> c.v.width, h |-> c.v.height]))

\* let metadata = {}; ... metadata[fileName] = {x, y, w, h}: a flat mapping
ManifestOf(result) ==
    [type |-> "manifest", entries |-> ManifestEntries(result.coordinates, <<>>)]

JsonManifest(metadata) ==
    [text |-> "json",
     entries |-> [i \in 1..Len(metadata.entries) |->
                    <<metadata.entries[i].k,
                      "x", metadata.entries[i].v.x, "y", metadata.entries[i].v.y,
                      "w", metadata.entries[i].v.w, "h", metadata.entries[i].v.h>>]]

NoFile == [text |-> "absent"]

\* ------------------------------------------------------ compilation.assets
OriginalSource(id) == [orig |-> id]
RawSource(image) == [raw |-> image]

AssetIds(as) == [i \in 1..Len(as) |-> as[i].id]

updateAsset(as, id, source) ==
    [i \in 1..Len(as) |-> IF as[i].id = id THEN [id |-> id, src |-> source] ELSE as[i]]

deleteAsset(as, id) == SelectSeq(as, LAMBDA a : a.id # id)

\* Mutant: the delete loop skips one more index (idx > 1 for idx > 0).
DeleteAll_OffByOne(as, ids) ==
    SelectSeq(as, LAMBDA a : a.id \notin {ids[i] : i \in 2..Len(ids)})

RECURSIVE DeleteAll(_, _)
DeleteAll(as, ids) ==
    IF ids = <<>> THEN as ELSE DeleteAll(deleteAsset(as, Head(ids)), Tail(ids))

\* Mutant: the sheet replaces the first slot and nothing is deleted.
Reconcile_KeepsOthers(as, imagesPath, image) ==
    updateAsset(as, Head(imagesPath), RawSource(image))

\* Mutant: slots are addressed by position instead of by identifier: the
\* sheet goes into the first slot and the next Len(imagesPath) - 1 are removed.
Reconcile_ByPosition(as, imagesPath, image) ==
    <<[id |-> as[1].id, src |-> RawSource(image)]>>
        \o SubSeq(as, Len(imagesPath) + 1, Len(as))

\* updateAsset(imagesPath[0], sprite), then deleteAsset for every idx > 0
Reconcile(as, imagesPath, image) ==
    DeleteAll(updateAsset(as, Head(imagesPath), RawSource(image)), Tail(imagesPath))

\* ------------------------------------------------------------------ inputs
Undefined == [type |-> "undefined"]
Re(source, global) == [type |-> "RegExp", source |-> source, global |-> global]
StrV(val) == [type |-> "string", val |-> val]
NumV == [type |-> "number"]
Arr(items) == [type |-> "Array", items |-> items]

\* option values the hook handlers run with
OpRules ==
    { Undefined,
      Re(<<"/", "a">>, FALSE),
      Arr(<<Re(<<"b">>, FALSE), StrV(Str_a_png)>>),
      NumV }

\* option values the filter is evaluated with on its own
FilterRules ==
    OpRules \cup
    { Re(<<"a">>, TRUE),
      Arr(<<>>),
      Arr(<<Re(<<"d", "/">>, FALSE), Re(<<"b">>, TRUE)>>),
      Arr(<<NumV, Re(<<"a">>, FALSE)>>),
      StrV(<<>>),
      StrV(Str_a_png) }

FilterPaths ==
    {Str_a_png, Str_b_png, Str_da_png, Str_wa_png, Str_a_txt, Str_wb_png, <<"p", "n", "g">>}

\* asset sets of a compilation / scan results, in discovery order
AssetLists ==
    { <<>>,
      <<Str_a_txt>>,
      <<Str_a_png>>,
      <<Str_a_png, Str_b_png>>,
      <<Str_b_png, Str_a_txt, Str_a_png>>,
      <<Str_a_png, Str_da_png>>,
      <<Str_da_png, Str_b_png, Str_a_png>> }

InitLastIndex(r) ==
    IF IsRegExp(r) THEN <<0>>
    ELSE IF IsArray(r) THEN [i \in 1..Len(r.items) |-> 0]
    ELSE <<>>

\* this._outputDir (index.js) and process.cwd() (plugin.js)
OutputDir == <<"o">>
Cwd == Str_d

\* the source files the watcher may know, relative to cwd, in the order
\* watched() lists them
WatchOrder == <<Str_a_png>>
WatchFiles == {WatchOrder[i] : i \in 1..Len(WatchOrder)}

\* ------------------------------------------------------------------- Init
\* No object has been handed to the differ yet.
NoCaller == [obj |-> Null, orig |-> Null, changed |-> FALSE, shares |-> {}]

Init ==
    /\ mode \in {"filter", "differ", "pipeline", "prod", "watch"}
    /\ sep \in {"/", "\\"}
    /\ rules \in (IF mode = "filter" THEN FilterRules
                 ELSE IF mode = "differ" THEN {Undefined} ELSE OpRules)
    /\ lastIndex = InitLastIndex(rules)
    /\ assets = <<>>
    /\ jobs = <<>>
    /\ coordinateMeta = Null
    /\ disk = [coord |-> NoFile, manifest |-> NoFile, sprite |-> NoFile]
    /\ watched \in (IF mode = "watch" THEN SUBSET WatchFiles ELSE {{}})
    /\ nAttempts = 0
    /\ prevMeta = Null
    /\ caller = NoCaller
    /\ last = [op |-> "init"]

\* A pack attempt in flight: the closure of one handler run.
Job(stage, src, imagesPath, cb) ==
    [stage |-> stage, src |-> src, imagesPath |-> imagesPath, cb |-> cb,
     cbFired |-> FALSE, size |-> 0, mw |-> "none", sw |-> "none"]

\* A finished attempt: its closure is gone.
Done == Job("done", <<>>, <<>>, FALSE)

\* No attempt is outstanding (the host runs its hooks one build at a time).
Idle == \A k \in 1..Len(jobs) : jobs[k].stage = "done"

\* ------------------------------------------------- the differ on its own
\* Candidate metadata objects: what lines 98-104 build for a pack result, in
\* the insertion order of the loop or in the opposite one.
DifferSources == {<<Str_a_png>>, <<Str_b_png, Str_a_png>>}

Reordered(meta) ==
    [meta EXCEPT !.frames = [i \in 1..Len(meta.frames) |->
                                meta.frames[Len(meta.frames) + 1 - i]]]

DifferMetas ==
    LET base == {CoordinateMetaOf(PackResult(src, size)) :
                    src \in DifferSources, size \in 1..MaxSize}
    IN  base \cup {Reordered(m) : m \in base}

\* The caller's side of a call: obj is the object it passed, as it is now;
\* orig is the value obj had when it was passed; changed is what the call
\* reported; shares are the parts of this._coordinateMeta that are obj's own.
CallerOf(obj, orig, changed, shares) ==
    [obj |-> obj, orig |-> orig, changed |-> changed, shares |-> shares]

\* An in-place mutation of one part of a metadata object: a dimension is
\* overwritten, a key is deleted from frames, a rectangle's x is overwritten.
Mutated(obj, part) ==
    IF part = "top" THEN [obj EXCEPT !.width = obj.width + 1]
    ELSE IF part = "frames"
         THEN [obj EXCEPT !.frames = SubSeq(obj.frames, 1, Len(obj.frames) - 1)]
    ELSE [obj EXCEPT !.frames[1].v.x = obj.frames[1].v.x + 1]

\* One call this.isPrevMetadata(M).
DifferCall(M) ==
    /\ mode = "differ"
    /\ nAttempts < MaxEvals
    /\ LET d == isPrevMetadata(coordinateMeta, M)
       IN  /\ coordinateMeta' = d.coordinateMeta
           /\ last' = [op |-> "differ", arg |-> M, equal |-> d.equal,
                       before |-> coordinateMeta,
                       repeat |-> last.op = "differ" /\ last.arg = M]
           /\ caller' = CallerOf(M, M, ~d.equal, d.shares)
    /\ nAttempts' = nAttempts + 1
    /\ UNCHANGED <<mode, sep, rules, lastIndex, assets, jobs, disk, watched, prevMeta>>

\* The caller mutates, in place, the object it handed to the differ. What
\* this._coordinateMeta shares with that object changes with it.
MutateCandidate(part) ==
    /\ mode = "differ"
    /\ nAttempts < MaxEvals
    /\ ~IsNull(caller.obj)
    /\ part # "top" => Len(caller.obj.frames) > 0
    /\ caller' = [caller EXCEPT !.obj = Mutated(caller.obj, part)]
    /\ coordinateMeta' = IF part \in caller.shares
                         THEN Mutated(coordinateMeta, part)
                         ELSE coordinateMeta
    /\ last' = [op |-> "mutate", part |-> part, before |-> coordinateMeta]
    /\ nAttempts' = nAttempts + 1
    /\ UNCHANGED <<mode, sep, rules, lastIndex, assets, jobs, disk, watched, prevMeta>>

\* ------------------------------------------------- the filter on its own
EvalQualifiesIndex(p) ==
    /\ mode = "filter"
    /\ nAttempts < MaxEvals
    /\ LET r == QualifiesIndex(rules, lastIndex, p)
       IN  /\ lastIndex' = r.lastIndex
           /\ last' = [op |-> "qualifiesIndex", path |-> p, res |-> r, li |-> lastIndex]
    /\ nAttempts' = nAttempts + 1
    /\ UNCHANGED <<caller, mode, sep, rules, assets, jobs, coordinateMeta, disk, watched, prevMeta>>

EvalQualifiesPlugin(p) ==
    /\ mode = "filter"
    /\ nAttempts < MaxEvals
    /\ LET r == QualifiesPlugin(rules, lastIndex, p)
       IN  /\ lastIndex' = r.lastIndex
           /\ last' = [op |-> "qualifiesPlugin", path |-> p, res |-> r, li |-> lastIndex]
    /\ nAttempts' = nAttempts + 1
    /\ UNCHANGED <<caller, mode, sep, rules, assets, jobs, coordinateMeta, disk, watched, prevMeta>>

\* ------------------------------------------- index.js: processAssets hook
\* (assets, callback) => { filter; map to Vinyl; pack or callback() }
ProcessAssets(list) ==
    /\ mode = "pipeline"
    /\ Idle
    /\ nAttempts < MaxAttempts
    /\ LET as == [i \in 1..Len(list) |-> [id |-> list[i], src |-> OriginalSource(list[i])]]
           f  == FilterIndex(rules, lastIndex, AssetIds(as), <<>>)
       IN  /\ assets' = as
           /\ lastIndex' = f.lastIndex
           /\ IF f.kind = "throw"
              THEN /\ jobs' = Append(jobs, Job("fatal", <<>>, <<>>, TRUE))
                   /\ last' = [op |-> "processAssets", outcome |-> "throw",
                               idx |-> f.idx, typ |-> f.typ, imagesPath |-> <<>>,
                               packerInvoked |-> FALSE, wrote |-> FALSE, cbFired |-> FALSE]
              ELSE IF Len(f.out) > 0
              THEN /\ jobs' = Append(jobs, Job("packing",
                                    [i \in 1..Len(f.out) |-> PathJoin(OutputDir, f.out[i])],
                                    f.out, TRUE))
                   /\ last' = [op |-> "processAssets", outcome |-> "packing",
                               idx |-> -1, typ |-> "", imagesPath |-> f.out,
                               packerInvoked |-> TRUE, wrote |-> FALSE, cbFired |-> FALSE]
              ELSE /\ jobs' = jobs
                   /\ last' = [op |-> "processAssets", outcome |-> "noop",
                               idx |-> -1, typ |-> "", imagesPath |-> f.out,
                               packerInvoked |-> FALSE, wrote |-> FALSE, cbFired |-> TRUE]
    /\ nAttempts' = nAttempts + 1
    /\ UNCHANGED <<caller, mode, sep, rules, coordinateMeta, disk, watched, prevMeta>>

\* The packer callback of index.js, run to completion: reconcile the assets,
\* build the metadata, write it when the differ reports a change, callback().
\* writeOk: whether writeFileSync returns (it throws otherwise).
PipelinePacked(k, size, writeOk) ==
    /\ mode = "pipeline"
    /\ k \in 1..Len(jobs)
    /\ jobs[k].stage = "packing"
    /\ LET j      == jobs[k]
           result == PackResult(j.src, size)
           meta   == CoordinateMetaOf(result)
           d      == isPrevMetadata(coordinateMeta, meta)
           thrown == ~d.equal /\ ~writeOk
       IN  /\ d.equal => writeOk
           /\ assets' = Reconcile(assets, j.imagesPath, result.image)
           /\ coordinateMeta' = d.coordinateMeta
           /\ disk' = IF ~d.equal /\ writeOk
                      THEN [disk EXCEPT !.coord = JsonCoordinateMeta(meta)]
                      ELSE disk
           /\ jobs' = [jobs EXCEPT ![k] = IF thrown THEN [j EXCEPT !.stage = "fatal"] ELSE Done]
           /\ prevMeta' = IF thrown THEN prevMeta ELSE meta
           /\ last' = [op |-> "packed", mode |-> mode, imagesPath |-> j.imagesPath,
                       before |-> assets, result |-> result, meta |-> meta,
                       prev |-> prevMeta, metaWrite |-> ~d.equal, job |-> k,
                       writeFailed |-> thrown, cbFired |-> ~thrown]
    /\ UNCHANGED <<caller, mode, sep, rules, lastIndex, watched, nAttempts>>

\* Mutant: the error is swallowed and the host callback fires all the same.
PackerFailed_CallsBack(k) ==
    /\ k \in 1..Len(jobs)
    /\ jobs[k].stage = "packing"
    /\ jobs' = [jobs EXCEPT ![k].stage = "done", ![k].cbFired = TRUE]
    /\ last' = [op |-> "packerFailed", mode |-> mode, job |-> k, cbFired |-> TRUE]
    /\ UNCHANGED <<caller, mode, sep, rules, lastIndex, assets, coordinateMeta, disk, watched,
                   nAttempts, prevMeta>>

\* Spritesmith reports an error: "if (err) throw err" inside its callback.
PackerFailed(k) ==
    /\ k \in 1..Len(jobs)
    /\ jobs[k].stage = "packing"
    /\ jobs' = [jobs EXCEPT ![k].stage = "fatal"]
    /\ last' = [op |-> "packerFailed", mode |-> mode, job |-> k, cbFired |-> FALSE]
    /\ UNCHANGED <<caller, mode, sep, rules, lastIndex, assets, coordinateMeta, disk, watched,
                   nAttempts, prevMeta>>

\* ------------------------------------------------- plugin.js: the writes
\* Image sizes the packer meets in the standalone variant: the smallest and
\* the largest.
StandaloneSizes == {1, MaxSize}

\* #generateSpriteSheet's packer callback: build the manifest and start both
\* writeFile calls (under Promise.all(...).finally(callback) when a callback
\* was given).
StandalonePacked(k, size) ==
    /\ mode \in {"prod", "watch"}
    /\ k \in 1..Len(jobs)
    /\ jobs[k].stage = "packing"
    /\ LET result   == PackResult(jobs[k].src, size)
           metadata == ManifestOf(result)
       IN  /\ jobs' = [jobs EXCEPT ![k].stage = "writing", ![k].size = size,
                                   ![k].mw = "pending", ![k].sw = "pending"]
           /\ prevMeta' = metadata
           /\ last' = [op |-> "packed", mode |-> mode, imagesPath |-> jobs[k].src,
                       before |-> assets, result |-> result, meta |-> metadata,
                       prev |-> prevMeta, metaWrite |-> TRUE, job |-> k,
                       writeFailed |-> FALSE, cbFired |-> FALSE]
    /\ UNCHANGED <<caller, mode, sep, rules, lastIndex, assets, coordinateMeta, disk, watched,
                   nAttempts>>

\* Promise.all([manifest, sprite]).finally(callback): the callback runs when
\* the combined promise settles, which is at the first rejection or when the
\* last of the two fulfils.
SettlesNow(j, which, ok) ==
    LET other == IF which = "manifest" THEN j.sw ELSE j.mw
    IN  j.cb /\ ~j.cbFired /\ (~ok \/ other = "ok")

\* One writeFile of job k completes, with success or with an error.
WriteDone(k, which, ok) ==
    /\ mode \in {"prod", "watch"}
    /\ k \in 1..Len(jobs)
    /\ jobs[k].stage = "writing"
    /\ (IF which = "manifest" THEN jobs[k].mw ELSE jobs[k].sw) = "pending"
    /\ LET j      == jobs[k]
           result == PackResult(j.src, j.size)
           status == IF ok THEN "ok" ELSE "failed"
           fires  == SettlesNow(j, which, ok)
           j2     == IF which = "manifest"
                     THEN [j EXCEPT !.mw = status, !.cbFired = j.cbFired \/ fires]
                     ELSE [j EXCEPT !.sw = status, !.cbFired = j.cbFired \/ fires]
       IN  /\ disk' = IF ~ok THEN disk
                      ELSE IF which = "manifest"
                      THEN [disk EXCEPT !.manifest = JsonManifest(ManifestOf(result))]
                      ELSE [disk EXCEPT !.sprite = result.image]
           /\ jobs' = [jobs EXCEPT ![k] =
                          IF j2.mw # "pending" /\ j2.sw # "pending" THEN Done ELSE j2]
           /\ last' = [op |-> "writeDone", mode |-> mode, which |-> which,
                       cb |-> j.cb, cbFired |-> fires,
                       otherPending |-> (j2.mw = "pending" \/ j2.sw = "pending")]
    /\ UNCHANGED <<caller, mode, sep, rules, lastIndex, assets, coordinateMeta, watched,
                   nAttempts, prevMeta>>

\* ------------------------------------------- plugin.js: beforeRun (production)
\* scanner(...).map(v => path.join(cwd, v)).filter(...);
\* if (allSourceImages.length > 0) this.#generateSpriteSheet(allSourceImages, callback)
BeforeRun(list) ==
    /\ mode = "prod"
    /\ Idle
    /\ nAttempts < MaxAttempts
    /\ LET f == FilterPlugin(rules, lastIndex,
                             [i \in 1..Len(list) |-> PathJoin(Cwd, list[i])], <<>>)
       IN  /\ lastIndex' = f.lastIndex
           /\ IF f.kind = "throw"
              THEN /\ jobs' = Append(jobs, Job("fatal", <<>>, <<>>, TRUE))
                   /\ last' = [op |-> "beforeRun", outcome |-> "throw",
                               idx |-> f.idx, typ |-> f.typ, imagesPath |-> <<>>,
                               packerInvoked |-> FALSE, wrote |-> FALSE, cbFired |-> FALSE]
              ELSE IF Len(f.out) > 0
              THEN /\ jobs' = Append(jobs, Job("packing", f.out, f.out, TRUE))
                   /\ last' = [op |-> "beforeRun", outcome |-> "packing",
                               idx |-> -1, typ |-> "", imagesPath |-> f.out,
                               packerInvoked |-> TRUE, wrote |-> FALSE, cbFired |-> FALSE]
              ELSE /\ jobs' = Append(jobs, Job("returned", <<>>, <<>>, TRUE))
                   /\ last' = [op |-> "beforeRun", outcome |-> "noop",
                               idx |-> -1, typ |-> "", imagesPath |-> f.out,
                               packerInvoked |-> FALSE, wrote |-> FALSE, cbFired |-> FALSE]
    /\ nAttempts' = nAttempts + 1
    /\ UNCHANGED <<caller, mode, sep, rules, assets, coordinateMeta, disk, watched, prevMeta>>

\* ------------------------------------------------ plugin.js: watch mode
\* this._outputDir with the default outputDir "./" is the cwd
Str_sprite_png   == <<"s", "p", "r", "i", "t", "e", ".", "p", "n", "g">>
Str_manifest_json == <<"m", "a", "n", "i", "f", "e", "s", "t", ".", "j", "s", "o", "n">>
SpriteImagePath == PathJoin(Cwd, Str_sprite_png)
ManifestPath == PathJoin(Cwd, Str_manifest_json)

\* The plugin's two output files, by the name of their entry in disk.
OutputName(which) == IF which = "sprite" THEN Str_sprite_png ELSE Str_manifest_json

\* watched() lists the source files, then the output files the watcher has
\* come to know (the output directory lying inside a watched entry).
WatchListing == WatchOrder \o <<Str_sprite_png, Str_manifest_json>>

\* Object.values(watcher.watched()).flatMap(...): absolute paths
WatchedList(w) ==
    LET rel == SelectSeq(WatchListing, LAMBDA p : p \in w)
    IN  [i \in 1..Len(rel) |-> PathJoin(Cwd, rel[i])]

\* path.relative(path1, path2) == '' for normalized absolute paths
pathEqual(path1, path2) == path1 = path2

\* The handler's observable outcome, recorded in last.
HandlerOutcome(op, outcome, idx, typ, imagesPath, outstanding) ==
    [op |-> op, outcome |-> outcome, idx |-> idx, typ |-> typ, imagesPath |-> imagesPath,
     packerInvoked |-> outcome = "packing", wrote |-> FALSE, cbFired |-> FALSE,
     outstanding |-> outstanding]

\* #spriteProcess(watcher) once the watched files are filtered (f): a throw
\* ends the handler, a non-empty list starts #generateSpriteSheet without a
\* callback, an empty list does nothing.
spriteProcessStep(op, f, outstanding) ==
    /\ lastIndex' = f.lastIndex
    /\ jobs' = IF f.kind = "throw" THEN Append(jobs, Job("fatal", <<>>, <<>>, FALSE))
               ELSE IF Len(f.out) > 0 THEN Append(jobs, Job("packing", f.out, f.out, FALSE))
               ELSE jobs
    /\ last' = HandlerOutcome(op,
                              IF f.kind = "throw" THEN "throw"
                              ELSE IF Len(f.out) > 0 THEN "packing" ELSE "noop",
                              f.idx, f.typ, f.out, outstanding)

spriteProcess(op, w, li, outstanding) ==
    spriteProcessStep(op, FilterPlugin(rules, li, WatchedList(w), <<>>), outstanding)

\* gazeIns.on("ready", this.#spriteProcess.bind(this, gazeIns))
Ready ==
    /\ mode = "watch"
    /\ nAttempts = 0
    /\ spriteProcess("ready", watched, lastIndex, FALSE)
    /\ nAttempts' = nAttempts + 1
    /\ UNCHANGED <<caller, mode, sep, rules, assets, coordinateMeta, disk, watched, prevMeta>>

\* The guard of the "all" listener, evaluated left to right with short circuit.
EventGuardRest(n, filePath) ==
    IF n.kind = "throw" THEN n
    ELSE Return(/\ n.val
                /\ ~pathEqual(filePath, SpriteImagePath)
                /\ ~pathEqual(filePath, ManifestPath)
                /\ isPng(filePath),
                n.lastIndex)

EventGuard(event, filePath, li) ==
    IF event = "renamed" THEN Return(FALSE, li)
    ELSE EventGuardRest(notExcludes(rules, li, filePath), filePath)

\* What the watcher knows after the event.
WatchedAfter(event, rel, w) ==
    IF event = "deleted" THEN w \ {rel} ELSE w \cup {rel}

Outstanding == \E k \in 1..Len(jobs) : jobs[k].stage \in {"packing", "writing"}

\* The "all" listener once its guard is evaluated (g), the watcher knowing w.
FileEventStep(op, g, w) ==
    IF g.kind = "throw"
    THEN /\ lastIndex' = g.lastIndex
         /\ jobs' = Append(jobs, Job("fatal", <<>>, <<>>, FALSE))
         /\ last' = HandlerOutcome(op, "throw", g.idx, g.typ, <<>>, Outstanding)
    ELSE IF ~g.val
    THEN /\ lastIndex' = g.lastIndex
         /\ jobs' = jobs
         /\ last' = HandlerOutcome(op, "ignored", -1, "", <<>>, Outstanding)
    ELSE spriteProcess(op, w, g.lastIndex, Outstanding)

\* gazeIns.on("all", (event, filePath) => { if (guard) this.#spriteProcess(gazeIns) })
FileEvent(event, rel) ==
    /\ mode = "watch"
    /\ nAttempts >= 1
    /\ nAttempts < MaxAttempts
    /\ event \in {"added", "renamed"} => rel \notin watched
    /\ event \in {"changed", "deleted"} => rel \in watched
    /\ watched' = WatchedAfter(event, rel, watched)
    /\ FileEventStep("fileEvent", EventGuard(event, PathJoin(Cwd, rel), lastIndex),
                     WatchedAfter(event, rel, watched))
    /\ nAttempts' = nAttempts + 1
    /\ UNCHANGED <<caller, mode, sep, rules, assets, coordinateMeta, disk, prevMeta>>

\* The "all" listener run for one of the plugin's own output files: the
\* watcher sees the file the plugin wrote ("added" the first time, "changed"
\* afterwards) when the output directory lies inside a watched entry.
OutputEvent(event, which) ==
    /\ mode = "watch"
    /\ nAttempts >= 1
    /\ disk[which] # NoFile
    /\ event = "added" => OutputName(which) \notin watched
    /\ event = "changed" => OutputName(which) \in watched
    /\ watched' = WatchedAfter(event, OutputName(which), watched)
    /\ FileEventStep("outputEvent",
                     EventGuard(event, PathJoin(Cwd, OutputName(which)), lastIndex),
                     WatchedAfter(event, OutputName(which), watched))
    /\ UNCHANGED <<caller, mode, sep, rules, assets, coordinateMeta, disk, prevMeta,
                   nAttempts>>

Next ==
    \/ \E p \in FilterPaths : EvalQualifiesIndex(p)
    \/ \E p \in FilterPaths : EvalQualifiesPlugin(p)
    \/ \E M \in DifferMetas : DifferCall(M)
    \/ \E part \in Parts : MutateCandidate(part)
    \/ \E list \in AssetLists : ProcessAssets(list)
    \/ \E k \in 1..MaxAttempts, size \in 1..MaxSize, writeOk \in BOOLEAN :
          PipelinePacked(k, size, writeOk)
    \/ \E k \in 1..MaxAttempts : PackerFailed(k)
    \/ \E list \in AssetLists : BeforeRun(list)
    \/ \E k \in 1..MaxAttempts, size \in StandaloneSizes : StandalonePacked(k, size)
    \/ \E k \in 1..MaxAttempts, which \in {"manifest", "sprite"}, ok \in BOOLEAN :
          WriteDone(k, which, ok)
    \/ Ready
    \/ \E event \in {"added", "changed", "deleted", "renamed"}, rel \in WatchFiles :
          FileEvent(event, rel)
    \/ \E event \in {"added", "changed"}, which \in {"sprite", "manifest"} :
          OutputEvent(event, which)

Spec == Init /\ [][Next]_vars

\* ======================================================================
\* Properties
\* ======================================================================
InFlight == {k \in 1..Len(jobs) : jobs[k].stage \in {"packing", "writing"}}

IdSet(as) == {as[i].id : i \in 1..Len(as)}
Slots(as, id) == {i \in 1..Len(as) : as[i].id = id}

\* The packed images are down to one slot: the first qualifying identifier,
\* holding the sheet; the other qualifying identifiers are gone.
OneSlotLeft(as, imagesPath, image) ==
    /\ Cardinality(Slots(as, imagesPath[1])) = 1
    /\ \A i \in Slots(as, imagesPath[1]) : as[i].src = [raw |-> image]
    /\ \A n \in 2..Len(imagesPath) : imagesPath[n] \notin IdSet(as)

\* C1: in-pipeline mode, after a pack attempt whose packer succeeded the asset
\* set holds exactly one of the qualifying identifiers, the first in discovery
\* order, with the sheet image in its slot; every other one is absent.
C1_FirstSlotHoldsSheet ==
    (mode = "pipeline" /\ last.op = "packed")
        => OneSlotLeft(assets, last.imagesPath, last.result.image)

C1_Witness ==
    /\ mode = "pipeline"
    /\ last.op = "packed"
    /\ Len(last.imagesPath) >= 2
    /\ Len(last.before) > Len(last.imagesPath)
    /\ last.before[1].id # last.imagesPath[1]

\* C2: a pack attempt started by the host hook with no qualifying image never
\* invokes the packer, writes nothing, and has fired the completion signal by
\* the time the handler is over (nothing is left that could fire it later).
C2_EmptyListSignalsCompletion ==
    (last.op \in {"processAssets", "beforeRun"} /\ last.outcome = "noop")
        => (~last.packerInvoked /\ ~last.wrote /\ last.cbFired)

\* Structural equality of two metadata values of the in-pipeline shape, stated
\* on their content: same dimensions, same frame keys, same rectangle per key.
SameMetadata(a, b) ==
    /\ a.width = b.width
    /\ a.height = b.height
    /\ {a.frames[i].k : i \in 1..Len(a.frames)} = {b.frames[i].k : i \in 1..Len(b.frames)}
    /\ \A i \in 1..Len(a.frames), n \in 1..Len(b.frames) :
           a.frames[i].k = b.frames[n].k => a.frames[i].v = b.frames[n].v

SameManifest(a, b) ==
    /\ {a.entries[i].k : i \in 1..Len(a.entries)} = {b.entries[i].k : i \in 1..Len(b.entries)}
    /\ \A i \in 1..Len(a.entries), n \in 1..Len(b.entries) :
           a.entries[i].k = b.entries[n].k => a.entries[i].v = b.entries[n].v

Unchanged(meta, prev) ==
    /\ ~IsNull(prev)
    /\ IF meta.type = "object" THEN SameMetadata(meta, prev) ELSE SameManifest(meta, prev)

C4_AtMostOneInFlight == mode = "watch" => Cardinality(InFlight) <= 1

\* C5: with a completion signal requested, the signal fires only once both
\* the manifest write and the sheet write have finished.
C5_SignalAfterBothWrites ==
    (last.op = "writeDone" /\ last.cbFired) => ~last.otherPending

\* C6: in-pipeline mode, a step that fires the host callback of a pack attempt
\* is one in which the packer of that attempt had been invoked and has
\* completed, and after which the first slot holds the sheet and no other
\* qualifying slot exists.
C6_CallbackAfterReconcile ==
    [][(mode = "pipeline" /\ last'.op = "packed" /\ last'.cbFired)
          => /\ last'.job \in 1..Len(jobs)
             /\ jobs[last'.job].stage = "packing"
             /\ jobs'[last'.job].stage = "done"
             /\ OneSlotLeft(assets', jobs[last'.job].imagesPath,
                            [sheet |-> jobs[last'.job].src, size |-> last'.result.image.size])
             /\ Len(assets') = Len(assets) - (Len(jobs[last'.job].imagesPath) - 1)]_vars

C6_Witness ==
    /\ mode = "pipeline"
    /\ last.op = "packed"
    /\ last.cbFired
    /\ Len(last.imagesPath) = 3
    /\ Len(assets) = 1

\* The frame key an identifier normalizes to, stated on the characters: the
\* last separator-free segment (in-pipeline mode), preceded by the segment
\* before it and "_" (standalone mode).
SepFree(s) == \A i \in 1..Len(s) : s[i] \notin Separators
Suffix(s, n) == SubSeq(s, Len(s) - n + 1, Len(s))
LastSegment(s) == Suffix(s, SetMax({n \in 0..Len(s) : SepFree(Suffix(s, n))}))
ParentOf(s) == SubSeq(s, 1, Len(s) - Len(LastSegment(s)) - 1)
FrameKey(id) ==
    IF mode = "pipeline" THEN LastSegment(id)
    ELSE LastSegment(ParentOf(id)) \o <<"_">> \o LastSegment(id)

DistinctFrameKeys(coordinates) ==
    \A i, n \in 1..Len(coordinates) :
        i # n => FrameKey(coordinates[i].k) # FrameKey(coordinates[n].k)

\* One entry per placement, under its frame key, with the placement's values.
FramesOfPlacements(frames, coordinates) ==
    /\ Len(frames) = Len(coordinates)
    /\ \A i \in 1..Len(coordinates) :
           \E n \in 1..Len(frames) :
               /\ frames[n].k = FrameKey(coordinates[i].k)
               /\ frames[n].v.x = coordinates[i].v.x
               /\ frames[n].v.y = coordinates[i].v.y
               /\ (IF mode = "pipeline" THEN frames[n].v.width ELSE frames[n].v.w)
                      = coordinates[i].v.width
               /\ (IF mode = "pipeline" THEN frames[n].v.height ELSE frames[n].v.h)
                      = coordinates[i].v.height

HasSheetDimensions(meta, result) ==
    /\ meta.type = "object"
    /\ meta.width = result.properties.width
    /\ meta.height = result.properties.height

ValidRule(r) ==
    \/ r.type = "undefined"
    \/ IsRegExp(r)
    \/ IsArray(r) /\ \A i \in 1..Len(r.items) : IsRegExp(r.items[i])

RefQualifies(path, r) ==
    /\ EndsWith(path, DotPng)
    /\ \/ r.type = "undefined"
       \/ IsRegExp(r) /\ ~Matches(r, path)
       \/ IsArray(r) /\ \A i \in 1..Len(r.items) : ~Matches(r.items[i], path)

\* C8: in both modes a path qualifies iff it ends with ".png" and the rule is
\* absent, or is a pattern the path does not match, or is a list of patterns
\* none of which the path matches.
C8_FilterReference ==
    (last.op \in {"qualifiesIndex", "qualifiesPlugin"} /\ ValidRule(rules))
        => /\ last.res.kind = "return"
           /\ last.res.val = RefQualifies(last.path, rules)

NonPatterns(r) == {i \in 1..Len(r.items) : ~IsRegExp(r.items[i])}

\* C9: for a rule list with exactly one non-pattern element, at index k, every
\* filter evaluation throws an error naming k and the element's type.
C9_NonPatternElementThrows ==
    (/\ last.op \in {"qualifiesIndex", "qualifiesPlugin"}
     /\ IsArray(rules)
     /\ Cardinality(NonPatterns(rules)) = 1)
        => /\ last.res.kind = "throw"
           /\ \A k \in NonPatterns(rules) :
                  /\ last.res.idx = k - 1
                  /\ last.res.typ = TypeOf(rules.items[k])

\* C10: the step in which the packer reports failure for an attempt ends the
\* attempt as fatal and changes nothing else: no slot is replaced or deleted,
\* no file is written, the differ state is kept, no callback fires and no
\* packer call is added; a fatal attempt never moves again.
C10_PackerFailureIsFatal ==
    [][/\ last'.op = "packerFailed"
          => /\ assets' = assets
             /\ disk' = disk
             /\ coordinateMeta' = coordinateMeta
             /\ ~last'.cbFired
             /\ Len(jobs') = Len(jobs)
             /\ \A k \in 1..Len(jobs) :
                    IF k = last'.job
                    THEN jobs[k].stage = "packing" /\ jobs'[k].stage = "fatal"
                         /\ ~jobs'[k].cbFired
                    ELSE jobs'[k] = jobs[k]
       /\ \A k \in 1..Len(jobs) :
              jobs[k].stage = "fatal" => (Len(jobs') >= k /\ jobs'[k] = jobs[k])]_vars

C10_Witness ==
    /\ last.op = "packerFailed"
    /\ mode = "watch"
    /\ \E k \in 1..Len(jobs) : jobs[k].stage = "writing"
    /\ jobs[last.job].stage = "fatal"

\* C11: calling the differ twice in a row with the same metadata M, from any
\* prior state, reports 'unchanged' on the second call, and the second call
\* leaves the Persisted Metadata State as it was.
C11_DifferIdempotent ==
    (last.op = "differ" /\ last.repeat) =>
        (last.equal /\ coordinateMeta = last.before)

\* The second of two calls with the same M, the first made from state 'none'.
C11_Witness ==
    /\ last.op = "differ" /\ last.repeat
    /\ nAttempts = 2
    /\ ~IsNull(coordinateMeta)

\* C12: after a differ call that reported 'changed' for candidate C, an
\* in-place mutation of C (a dimension, the frames mapping, a rectangle)
\* leaves the Persisted Metadata State as it was, and a comparison of the
\* state against the value C had when it was passed still reports 'unchanged'.
C12_StateIndependentOfCandidate ==
    (last.op = "mutate" /\ caller.changed) =>
        /\ coordinateMeta = last.before
        /\ isPrevMetadata(coordinateMeta, caller.orig).equal

\* A rectangle of C was mutated after C was stored.
C12_Witness ==
    /\ last.op = "mutate" /\ last.part = "rects"
    /\ caller.changed
    /\ caller.obj # caller.orig
    /\ ~IsNull(coordinateMeta)

\* Two paths that differ only in the separator written at some positions.
SameUpToSeparator(p, q) ==
    /\ Len(p) = Len(q)
    /\ p # q
    /\ \A i \in 1..Len(p) : p[i] = q[i] \/ {p[i], q[i]} = {"/", "\\"}

\* The evaluation the last step made, made instead on path q.
TwinEvaluation(q) ==
    IF last.op = "qualifiesIndex" THEN QualifiesIndex(rules, last.li, q)
    ELSE QualifiesPlugin(rules, last.li, q)

\* C13: on either platform and in both variants, a filter evaluation gives the
\* same outcome for two paths that differ only in the separator used.
C13_SeparatorIndependent ==
    last.op \in {"qualifiesIndex", "qualifiesPlugin"} =>
        \A q \in FilterPaths :
            SameUpToSeparator(last.path, q) =>
                /\ TwinEvaluation(q).kind = last.res.kind
                /\ TwinEvaluation(q).val = last.res.val

\* The evaluation the last step made, made instead with the RegExp objects in
\* the state li.
EvaluationIn(li) ==
    IF last.op = "qualifiesIndex" THEN QualifiesIndex(rules, li, last.path)
    ELSE QualifiesPlugin(rules, li, last.path)

\* C14: for a valid rule (absent, one pattern, a list of patterns, global
\* patterns included) a filter evaluation changes no state, and its result is
\* the one the same path gets from freshly built rules, whatever evaluations
\* came before.
C14_QualifiesIsPure ==
    (last.op \in {"qualifiesIndex", "qualifiesPlugin"} /\ ValidRule(rules)) =>
        /\ lastIndex = last.li
        /\ last.res.kind = EvaluationIn(InitLastIndex(rules)).kind
        /\ last.res.val = EvaluationIn(InitLastIndex(rules)).val

\* The metadata file, read back, is structurally equal to the value meta.
FileHolds(file, meta) ==
    /\ file.text = "json"
    /\ file.width = meta.width
    /\ file.height = meta.height
    /\ {file.frames[i] : i \in 1..Len(file.frames)}
          = {JsonCoordinateMeta(meta).frames[i] : i \in 1..Len(meta.frames)}

\* C15: in-pipeline mode, whenever no pack attempt is in progress the Persisted
\* Metadata State is 'none' and no metadata file has been written, or it is
\* structurally equal to the content of the metadata file; failed metadata
\* writes included.
C15_StateNeverAheadOfDisk ==
    (mode = "pipeline" /\ InFlight = {}) =>
        \/ IsNull(coordinateMeta) /\ disk.coord = NoFile
        \/ ~IsNull(coordinateMeta) /\ FileHolds(disk.coord, coordinateMeta)

\* The identifiers the handler found qualifying.
Qualifying == {last.imagesPath[n] : n \in 1..Len(last.imagesPath)}

\* C16: in-pipeline mode, after a pack attempt every asset that did not
\* qualify is still present with the content it had, and the asset set holds
\* no identifier that was not there before.
C16_NonQualifyingUntouched ==
    (mode = "pipeline" /\ last.op = "packed") =>
        /\ \A i \in 1..Len(last.before) :
               last.before[i].id \notin Qualifying =>
                   \E n \in 1..Len(assets) : assets[n] = last.before[i]
        /\ IdSet(assets) \subseteq IdSet(last.before)

\* Two images were packed around an asset that is not an image.
C16_Witness ==
    /\ mode = "pipeline"
    /\ last.op = "packed"
    /\ Len(last.imagesPath) = 2
    /\ Str_a_txt \in IdSet(last.before) \ Qualifying
    /\ Str_a_txt \in IdSet(assets)

\* The images handed to the packer by attempt k.
Candidates(k) == {jobs[k].src[i] : i \in 1..Len(jobs[k].src)}

\* C17: watch mode: an event for the sheet path or the manifest path starts no
\* pack attempt, and the sheet image the plugin wrote is never among the
\* candidates of a pack attempt.
C17_OutputsNeverFeedBack ==
    mode = "watch" =>
        /\ last.op = "outputEvent" => ~last.packerInvoked
        /\ \A k \in 1..Len(jobs) : SpriteImagePath \notin Candidates(k)

====
